---- MODULE Spec2Model ----
(***************************************************************************)
(* A model of simulator_program/data_analysis_tools.py: the parameter      *)
(* sweep (sweep_parameter_space, _get_array_indexes), the fidelity         *)
(* pipeline (fidelity_from_scratch), fid_single_qubit, encoding_fidelity,  *)
(* perfect_stab_circuit and scale_gate_times.                              *)
(*                                                                         *)
(* Python values are represented as follows.                               *)
(*   - a sweep argument is a record: kind "scalar" (field val) or kind     *)
(*     "list" (field items, a sequence);                                   *)
(*   - a numpy array is a record [shape, data], data a function from the   *)
(*     0-based index tuples of that shape to numbers;                      *)
(*   - a gate_times argument is a record [kind, times]: kind "dict",       *)
(*     "GateTimes" or "other", times a function from gate names to ns;     *)
(*   - a snapshot-time dictionary is the sequence of its keys in insertion *)
(*     order, a fidelity list the sequence of the result labels its        *)
(*     entries are computed from;                                          *)
(*   - libraries outside the file (qiskit, scipy, numpy.save, the other    *)
(*     modules of simulator_program) either return or raise.               *)
(***************************************************************************)
EXTENDS Integers, Sequences, FiniteSets, TLC

VARIABLES
    args,              \* the arguments of the call under execution
    pc,                \* position of the call under execution
    noise_parameters,  \* sweep_parameter_space: the six parameter lists
    sweep_lengths,     \* sweep_parameter_space: their lengths
    error_array,       \* sweep_parameter_space: fitted lifetimes
    var_array,         \* sweep_parameter_space: variances of the fit
    index,             \* sweep_parameter_space: the flat index counter
    product_pos,       \* itertools.product: positions of the next combination
    visited,           \* combinations the loop has taken, in order
    calls,             \* calls made to the libraries, in order
    files,             \* files written by np.save: name -> array
    frame,             \* locals of the pipeline function under execution
    error,             \* the exception that left sweep_parameter_space
    ret                \* the value sweep_parameter_space returns

vars == <<args, pc, noise_parameters, sweep_lengths, error_array, var_array,
          index, product_pos, visited, calls, files, frame, error, ret>>

sweep_vars == <<noise_parameters, sweep_lengths, error_array, var_array,
                index, product_pos, visited, calls, files, error, ret>>

(***************************************************************************)
(* Bounds of the model.                                                    *)
(***************************************************************************)
\* longest list given for one noise parameter
MaxLen == 3
\* largest number of combinations of one sweep
MaxCells == 12
\* largest number of stabilizer cycles
MaxCycles == 2
\* longest list of scalings
MaxScalings == 2

None == "None"

(***************************************************************************)
(* Python helpers.                                                         *)
(***************************************************************************)
Range(s) == {s[i] : i \in DOMAIN s}

RECURSIVE Prod(_)
Prod(s) == IF Len(s) = 0 THEN 1 ELSE Head(s) * Prod(Tail(s))

\* s[1:]
SliceFrom1(s) == IF Len(s) <= 1 THEN <<>> ELSE SubSeq(s, 2, Len(s))

\* s[1:-1]
Slice1ToLast(s) == IF Len(s) <= 2 THEN <<>> ELSE SubSeq(s, 2, Len(s) - 1)

Scalar(v) == [kind |-> "scalar", val |-> v, items |-> <<>>]
PyList(s) == [kind |-> "list", val |-> 0, items |-> s]

\* the 0-based index tuples over the first n axes of a shape
RECURSIVE CellsUpTo(_, _)
CellsUpTo(shape, n) ==
    IF n = 0 THEN {<<>>}
    ELSE {Append(t, c) : t \in CellsUpTo(shape, n - 1), c \in 0..(shape[n] - 1)}

\* the 0-based index tuples of an array of the given shape
Cells(shape) == CellsUpTo(shape, Len(shape))

\* np.zeros(shape)
np_zeros(shape) == [shape |-> shape, data |-> [t \in Cells(shape) |-> 0]]

\* the value of an array variable before its assignment
NoArray == np_zeros(<<>>)

(***************************************************************************)
(* sweep_parameter_space: helpers.                                         *)
(***************************************************************************)
\* [param] if not isinstance(param, list) else param, with the branches swapped
as_list_wrap_all(param) == IF param.kind # "list" THEN <<param.val>> ELSE <<0>>

\* [param] if not isinstance(param, list) else param
as_list(param) == IF param.kind # "list" THEN <<param.val>> ELSE param.items

\* index += 1 forgotten on the skip path
skip_index_stuck(i) == i

\* the index counter after a skipped combination
skip_index(i) == i + 1

\* T2 >= 2*T1 instead of T2 > 2*T1
skip_case_geq(params) == params[2] >= 2 * params[1]

\* Skip cases where T2 > 2*T1
skip_case(params) == params[2] > 2 * params[1]

\* the odometer of itertools.product: advance position i, carrying leftwards;
\* <<>> when the product is exhausted
RECURSIVE product_advance(_, _, _)
product_advance(pos, lists, i) ==
    IF i = 0 THEN <<>>
    ELSE IF pos[i] < Len(lists[i]) THEN [pos EXCEPT ![i] = pos[i] + 1]
    ELSE product_advance([pos EXCEPT ![i] = 1], lists, i - 1)

\* the first combination of itertools.product(*lists)
product_first(lists) ==
    IF \E i \in 1..Len(lists) : Len(lists[i]) = 0 THEN <<>>
    ELSE [i \in 1..Len(lists) |-> 1]

\* the combination after pos
product_next(pos, lists) == product_advance(pos, lists, Len(lists))

\* the tuple of values itertools.product yields at pos
product_value(pos, lists) == [i \in 1..Len(lists) |-> lists[i][pos[i]]]

\* the for loop of _get_array_indexes, i counting down (1-based here)
RECURSIVE array_indexes_loop(_, _, _)
array_indexes_loop(indexes, lengths, i) ==
    IF i < 1 THEN indexes
    ELSE IF indexes[i + 1] >= lengths[i + 1]
         THEN LET q == indexes[i + 1] \div lengths[i + 1]
                  a == [indexes EXCEPT ![i] = q]
              IN  array_indexes_loop(
                      [a EXCEPT ![i + 1] = a[i + 1] - a[i] * lengths[i + 1]],
                      lengths, i - 1)
         ELSE array_indexes_loop(indexes, lengths, i - 1)

\* _get_array_indexes without the subtraction that reduces indexes[i+1]
_get_array_indexes_no_reduce(idx, lengths) ==
    [i \in 1..Len(lengths) |-> IF i = Len(lengths) THEN idx ELSE 0]

\* _get_array_indexes(index, sweep_lengths)
_get_array_indexes(idx, lengths) ==
    LET n == Len(lengths)
        zeros == [i \in 1..n |-> 0]
    IN  array_indexes_loop([zeros EXCEPT ![n] = idx], lengths, n - 1)

(***************************************************************************)
(* Gate times.  GateTimes, WACQT_gate_times and get_gate_times live in     *)
(* simulator_program/idle_noise.py; a GateTimes object is the function     *)
(* from gate names to times it stands for.                                 *)
(***************************************************************************)
GateNames == {"x", "cz", "u1", "z", "measure", "feedback"}

EmptyDict == [g \in {} |-> 0]

\* GateTimes(single_qubit_default, two_qubit_default, custom_gate_times)
GateTimes(single_qubit_default, two_qubit_default, custom_gate_times) ==
    [g \in GateNames |->
        IF g \in DOMAIN custom_gate_times THEN custom_gate_times[g]
        ELSE IF g = "cz" THEN two_qubit_default
        ELSE single_qubit_default]

\* the standard gate times
WACQT_gate_times ==
    GateTimes(20, 100, [u1 |-> 0, z |-> 0, measure |-> 300, feedback |-> 350])

\* self.get_gate_times(custom_gate_times=custom)
get_gate_times(self, custom) ==
    [g \in GateNames |-> IF g \in DOMAIN custom THEN custom[g] ELSE self[g]]

InvalidGateTimes == "Invalid gate times, assuming WACQT_gate_times"

\* the else branch raising instead of falling back
full_gate_times_strict(gate_times) ==
    IF gate_times.kind = "dict"
    THEN [full |-> get_gate_times(WACQT_gate_times, gate_times.times),
          warned |-> <<>>, raised |-> FALSE]
    ELSE IF gate_times.kind = "GateTimes"
    THEN [full |-> gate_times.times, warned |-> <<>>, raised |-> FALSE]
    ELSE [full |-> WACQT_gate_times, warned |-> <<>>, raised |-> TRUE]

\* fidelity_from_scratch: get gate times missing from input
ffs_full_gate_times(gate_times) ==
    IF gate_times.kind = "dict"
    THEN [full |-> get_gate_times(WACQT_gate_times, gate_times.times),
          warned |-> <<>>, raised |-> FALSE]
    ELSE IF gate_times.kind = "GateTimes"
    THEN [full |-> gate_times.times, warned |-> <<>>, raised |-> FALSE]
    ELSE [full |-> WACQT_gate_times, warned |-> <<InvalidGateTimes>>,
          raised |-> FALSE]

\* fid_single_qubit: get gate times missing from input
fsq_full_gate_times(gate_times) ==
    IF gate_times.kind = "dict"
    THEN [full |-> get_gate_times(WACQT_gate_times, gate_times.times),
          warned |-> <<>>, raised |-> FALSE]
    ELSE IF gate_times.kind = "GateTimes"
    THEN [full |-> gate_times.times, warned |-> <<>>, raised |-> FALSE]
    ELSE [full |-> WACQT_gate_times, warned |-> <<InvalidGateTimes>>,
          raised |-> FALSE]

\* encoding_fidelity: get gate times missing from input
enc_full_gate_times(gate_times) ==
    IF gate_times.kind = "dict"
    THEN [full |-> get_gate_times(WACQT_gate_times, gate_times.times),
          warned |-> <<>>, raised |-> FALSE]
    ELSE IF gate_times.kind = "GateTimes"
    THEN [full |-> gate_times.times, warned |-> <<>>, raised |-> FALSE]
    ELSE [full |-> WACQT_gate_times, warned |-> <<InvalidGateTimes>>,
          raised |-> FALSE]

\* perfect_stab_circuit: the gate times used
psc_full_gate_times(gate_times) ==
    IF gate_times.kind = "dict"
    THEN [full |-> get_gate_times(WACQT_gate_times, gate_times.times),
          warned |-> <<>>, raised |-> FALSE]
    ELSE IF gate_times.kind = "GateTimes"
    THEN [full |-> gate_times.times, warned |-> <<>>, raised |-> FALSE]
    ELSE [full |-> WACQT_gate_times, warned |-> <<InvalidGateTimes>>,
          raised |-> FALSE]

\* scale_gate_times: the gate times used
sgt_full_gate_times(gate_times) ==
    IF gate_times.kind = "dict"
    THEN [full |-> get_gate_times(WACQT_gate_times, gate_times.times),
          warned |-> <<>>, raised |-> FALSE]
    ELSE IF gate_times.kind = "GateTimes"
    THEN [full |-> gate_times.times, warned |-> <<>>, raised |-> FALSE]
    ELSE [full |-> WACQT_gate_times, warned |-> <<InvalidGateTimes>>,
          raised |-> FALSE]

(***************************************************************************)
(* Circuits, snapshots and results.  The circuit builders live in          *)
(* simulator_program/stabilizers.py and idle_noise.py; a circuit is known  *)
(* here by the labels of the snapshots it saves, a result by the labels    *)
(* it holds, a snapshot-time dictionary by its keys.                       *)
(***************************************************************************)
Key(label, k) == [label |-> label, k |-> k]

\* the label prefix add_snapshot_to_circuit gives a snapshot
snapshot_label(snapshot_type) ==
    IF snapshot_type = "dm" \/ snapshot_type = "density_matrix" THEN "dm"
    ELSE IF snapshot_type = "exp" \/ snapshot_type = "expectation_value" THEN "exp"
    ELSE "none"

\* the snapshots of a stabilizer circuit of n_cycles cycles: one before the
\* first cycle and one after each cycle
stabilizer_snapshots(snapshot_type, n_cycles) ==
    IF snapshot_label(snapshot_type) = "none" THEN <<>>
    ELSE [i \in 1..(n_cycles + 1) |-> Key(snapshot_label(snapshot_type), i - 1)]

\* the dictionary of times add_idle_noise_to_circuit(..., return_time=True) and
\* get_circuit_time return: one entry per snapshot, then 'end'
circuit_time(snapshots) == Append(snapshots, Key("end", 0))

(***************************************************************************)
(* Frames: the locals of one call of a pipeline function.                  *)
(***************************************************************************)
Unbound == [bound |-> FALSE, keys |-> <<>>]
Bound(keys) == [bound |-> TRUE, keys |-> keys]

NoValue == [kind |-> "none", fid |-> <<>>, second |-> "none", time |-> <<>>]
EmptyList == [kind |-> "list", fid |-> <<>>, second |-> "none", time |-> <<>>]
Pair(fid, second, time) ==
    [kind |-> "pair", fid |-> fid, second |-> second, time |-> time]

NoFrame == [fn |-> "none", pc |-> "none"]

NewFrame(fn, a, pc0) ==
    [fn |-> fn, pc |-> pc0, a |-> a, full_gate_times |-> EmptyDict,
     recovery |-> FALSE, conditional |-> FALSE, time |-> Unbound,
     method |-> "automatic", stages |-> <<>>, results |-> <<>>,
     printed |-> <<>>, ret |-> NoValue, error |-> "none"]

Return(f, value) == [f EXCEPT !.pc = "done", !.ret = value]
Raise(f, err) == [f EXCEPT !.pc = "raised", !.error = err]

IsDm(snapshot_type) == snapshot_type = "dm" \/ snapshot_type = "density_matrix"
IsExp(snapshot_type) == snapshot_type = "exp" \/ snapshot_type = "expectation_value"

(***************************************************************************)
(* fidelity_from_scratch, one operator per stage of the function.          *)
(***************************************************************************)
InvalidSimulator == "Invalid simulator type, defaulting to density_matrix"
NotImplemented == "Warning: Post-process not implemented, exiting..."
NoMatch == "Warning: No matching data_process_type"

\* the methods simulator.set_option('method', ...) accepts
SimulatorMethods == {"density_matrix", "statevector"}

\* the settings with 'post_select' keeping the recovery as well
data_process_settings_both(data_process_type) ==
    IF data_process_type = "recovery"
    THEN [recovery |-> TRUE, conditional |-> FALSE]
    ELSE IF data_process_type = "post_select"
    THEN [recovery |-> TRUE, conditional |-> TRUE]
    ELSE [recovery |-> FALSE, conditional |-> FALSE]

\* check the data processing method for settings
data_process_settings(data_process_type) ==
    IF data_process_type = "recovery"
    THEN [recovery |-> TRUE, conditional |-> FALSE]
    ELSE IF data_process_type = "post_select"
    THEN [recovery |-> FALSE, conditional |-> TRUE]
    ELSE IF data_process_type = "empty_circuit"
    THEN [recovery |-> FALSE, conditional |-> FALSE]
    ELSE [recovery |-> FALSE, conditional |-> FALSE]

\* the order of the stages with extraction ahead of execution
ffs_next_pc_extract_first(stage, a) ==
    CASE stage = "prepare" -> "build"
      [] stage = "build" -> "transpile"
      [] stage = "transpile" -> "noise"
      [] stage = "noise" -> "extract"
      [] stage = "extract" -> "execute"
      [] OTHER -> "done"

\* the stage that follows a stage of fidelity_from_scratch
ffs_next_pc(stage, a) ==
    CASE stage = "prepare" -> "build"
      [] stage = "build" -> "transpile"
      [] stage = "transpile" -> "noise"
      [] stage = "noise" ->
            IF a.data_process_type = "empty_circuit" THEN "execute" ELSE "option"
      [] stage = "option" -> "execute"
      [] stage = "execute" -> "extract"
      [] OTHER -> "done"

\* gate times, settings and noise model
ffs_prepare(f) ==
    LET r == ffs_full_gate_times(f.a.gate_times)
        s == data_process_settings(f.a.data_process_type)
    IN  IF r.raised THEN Raise(f, "gate_times")
        ELSE [f EXCEPT !.full_gate_times = r.full,
                       !.printed = @ \o r.warned,
                       !.recovery = s.recovery,
                       !.conditional = s.conditional,
                       !.pc = ffs_next_pc("prepare", f.a)]

\* registers and get_full_stabilizer_circuit
ffs_build(f) ==
    [f EXCEPT !.stages = Append(@, "build"),
              !.pc = ffs_next_pc("build", f.a)]

\* shortest_transpile_from_distribution when transpile is set, then the
\* correct (no errors) state
ffs_transpile(f) ==
    [f EXCEPT !.stages = IF f.a.transpile THEN Append(@, "transpile") ELSE @,
              !.pc = ffs_next_pc("transpile", f.a)]

\* the empty noisy circuit for 'empty_circuit', idle noise otherwise
ffs_noise(f) ==
    LET snaps == stabilizer_snapshots(f.a.snapshot_type, f.a.n_cycles)
    IN  IF f.a.data_process_type = "empty_circuit"
        THEN [f EXCEPT !.time = Bound(circuit_time(snaps)),
                       !.stages = Append(@, "empty_noise"),
                       !.pc = ffs_next_pc("noise", f.a)]
        ELSE IF f.a.idle_noise
        THEN [f EXCEPT !.time = Bound(circuit_time(snaps)),
                       !.stages = Append(@, "idle_noise"),
                       !.pc = ffs_next_pc("noise", f.a)]
        ELSE [f EXCEPT !.pc = ffs_next_pc("noise", f.a)]

\* the except branch raising again instead of falling back
ffs_option_reraise(f) ==
    IF f.a.simulator_type \in SimulatorMethods
    THEN [f EXCEPT !.method = f.a.simulator_type,
                   !.pc = ffs_next_pc("option", f.a)]
    ELSE Raise(f, "set_option")

\* simulator.set_option('method', simulator_type) in its try/except
ffs_option(f) ==
    IF f.a.simulator_type \in SimulatorMethods
    THEN [f EXCEPT !.method = f.a.simulator_type,
                   !.pc = ffs_next_pc("option", f.a)]
    ELSE [f EXCEPT !.printed = Append(@, InvalidSimulator),
                   !.method = "density_matrix",
                   !.pc = ffs_next_pc("option", f.a)]

\* execute(circ, ...).result(): the result holds what the snapshots saved
ffs_execute(f) ==
    [f EXCEPT !.stages = Append(@, "execute"),
              !.results = stabilizer_snapshots(f.a.snapshot_type, f.a.n_cycles),
              !.pc = ffs_next_pc("execute", f.a)]

\* the fidelity at each snapshot: the labels read from results.data()
ffs_fidelities(snapshot_type, n_cycles) ==
    IF IsDm(snapshot_type)
    THEN [i \in 1..(n_cycles + 1) |-> Key("dm", i - 1)]
    ELSE IF IsExp(snapshot_type)
    THEN [i \in 1..(n_cycles + 1) |-> Key("exp", i - 1)]
    ELSE <<>>

\* the fidelities of the post-selected states, one per snapshot
\* (get_trivial_post_select_den_mat, get_trivial_exp_value)
ffs_post_select_fidelities(snapshot_type, n_cycles) ==
    IF IsDm(snapshot_type)
    THEN [i \in 1..(n_cycles + 1) |-> Key("post_select_dm", i - 1)]
    ELSE [i \in 1..(n_cycles + 1) |-> Key("post_select_exp", i - 1)]

\* the fidelities and the return statement of each data_process_type
ffs_extract(f) ==
    LET a == f.a
        g == [f EXCEPT !.stages = Append(@, "extract")]
        fids == ffs_fidelities(a.snapshot_type, a.n_cycles)
    IN  IF a.data_process_type = "empty_circuit"
        THEN IF ~(Range(fids) \subseteq Range(f.results)) THEN Raise(g, "KeyError")
             ELSE Return(g, Pair(fids, "time", f.time.keys))
        ELSE IF a.data_process_type = "recovery" \/ a.data_process_type = "none"
        THEN IF ~(Range(fids) \subseteq Range(f.results)) THEN Raise(g, "KeyError")
             ELSE IF ~f.time.bound THEN Raise(g, "UnboundLocalError")
             ELSE Return(g, Pair(fids, "time", f.time.keys))
        ELSE IF a.data_process_type = "post_select"
        THEN IF ~(IsDm(a.snapshot_type) \/ IsExp(a.snapshot_type))
             THEN Raise(g, "UnboundLocalError")
             ELSE Return(g, Pair(ffs_post_select_fidelities(a.snapshot_type,
                                                            a.n_cycles),
                                 "select_counts", <<>>))
        ELSE IF a.data_process_type = "post_process"
        THEN Return([g EXCEPT !.printed = Append(@, NotImplemented)], EmptyList)
        ELSE Return([g EXCEPT !.printed = Append(@, NoMatch)], EmptyList)

\* one stage of fidelity_from_scratch, the libraries returning
ffs_step(f) ==
    CASE f.pc = "prepare" -> ffs_prepare(f)
      [] f.pc = "build" -> ffs_build(f)
      [] f.pc = "transpile" -> ffs_transpile(f)
      [] f.pc = "noise" -> ffs_noise(f)
      [] f.pc = "option" -> ffs_option(f)
      [] f.pc = "execute" -> ffs_execute(f)
      [] f.pc = "extract" -> ffs_extract(f)
      [] OTHER -> f

\* whether the stage at f.pc calls into a library that may raise
ffs_calls_library(f) ==
    \/ f.pc \in {"prepare", "build", "transpile", "execute"}
    \/ f.pc = "noise" /\ (f.a.data_process_type = "empty_circuit" \/ f.a.idle_noise)
    \/ f.pc = "extract" /\ f.a.data_process_type
                              \in {"empty_circuit", "recovery", "none", "post_select"}

RECURSIVE ffs_run(_)
\* a whole call, the libraries returning
ffs_run(f) == IF f.pc \in {"done", "raised"} THEN f ELSE ffs_run(ffs_step(f))

\* fidelity_from_scratch(n_cycles, n_shots, ...)
fidelity_from_scratch(a) == ffs_run(NewFrame("fidelity_from_scratch", a, "prepare"))

(***************************************************************************)
(* fid_single_qubit.                                                       *)
(***************************************************************************)
\* get_idle_single_qubit(snapshot_times, snapshot_type, ...): the labels the
\* single-qubit circuit saves, 'start' and one 'snap_<index>' per key
get_idle_single_qubit(snapshot_times, snapshot_type) ==
    <<Key("start", 0)>> \o
    (IF IsDm(snapshot_type) \/ IsExp(snapshot_type)
     THEN [i \in 1..Len(snapshot_times) |-> Key("snap", i - 1)]
     ELSE <<>>)

\* the fidelities reading 'snap_' + str(i) instead of 'snap_' + str(i+1)
fsq_fidelities_from_snap_0(time, snapshot_type) ==
    <<Key("one", 0)>> \o
    (IF (IsDm(snapshot_type) \/ IsExp(snapshot_type)) /\ Len(time) > 2
     THEN [i \in 1..(Len(time) - 2) |-> Key("snap", i - 1)]
     ELSE <<>>)

\* fidelities = [1.0], then one entry per i in range(len(time)-2), read
\* from 'snap_' + str(i+1)
fsq_fidelities(time, snapshot_type) ==
    <<Key("one", 0)>> \o
    (IF (IsDm(snapshot_type) \/ IsExp(snapshot_type)) /\ Len(time) > 2
     THEN [i \in 1..(Len(time) - 2) |-> Key("snap", i)]
     ELSE <<>>)

\* fid_single_qubit(n_cycles, n_shots, ...), the libraries returning
fid_single_qubit(a) ==
    LET f == NewFrame("fid_single_qubit", a, "call")
        r == fsq_full_gate_times(a.gate_times)
        time == circuit_time(stabilizer_snapshots(a.snapshot_type, a.n_cycles))
        results == get_idle_single_qubit(time, a.snapshot_type)
        fids == fsq_fidelities(time, a.snapshot_type)
        read == (Range(fids) \ {Key("one", 0)}) \cup
                (IF IsDm(a.snapshot_type) THEN {Key("start", 0)} ELSE {})
        g == [f EXCEPT !.full_gate_times = r.full,
                       !.printed = @ \o r.warned,
                       !.time = Bound(time),
                       !.stages = <<"build", "transpile", "idle_noise", "execute",
                                    "extract">>,
                       !.results = results]
    IN  IF r.raised THEN Raise(f, "gate_times")
        ELSE IF ~(read \subseteq Range(results)) THEN Raise(g, "KeyError")
        ELSE Return(g, Pair(fids, "time", time))

(***************************************************************************)
(* perfect_stab_circuit.                                                   *)
(***************************************************************************)
\* time[snapshot_type + '_' + str(i)] = i*cycle_time for i in range(n_cycles+1)
psc_time(snapshot_type, n_cycles) ==
    [i \in 1..(n_cycles + 1) |-> Key(snapshot_type, i - 1)]

\* the fidelity at each snapshot: the labels read from results.data()
psc_fidelities(snapshot_type, n_cycles) ==
    IF IsDm(snapshot_type)
    THEN [i \in 1..(n_cycles + 1) |-> Key("dm", i - 1)]
    ELSE IF IsExp(snapshot_type)
    THEN [i \in 1..(n_cycles + 1) |-> Key("exp", i - 1)]
    ELSE <<>>

\* perfect_stab_circuit(n_cycles, n_shots, ...), the libraries returning
perfect_stab_circuit(a) ==
    LET f == NewFrame("perfect_stab_circuit", a, "call")
        r == psc_full_gate_times(a.gate_times)
        time == psc_time(a.snapshot_type, a.n_cycles)
        results == stabilizer_snapshots(a.snapshot_type, a.n_cycles)
        fids == psc_fidelities(a.snapshot_type, a.n_cycles)
        g == [f EXCEPT !.full_gate_times = r.full,
                       !.printed = @ \o r.warned,
                       !.time = Bound(time),
                       !.stages = <<"build", "execute", "extract">>,
                       !.results = results]
    IN  IF r.raised THEN Raise(f, "gate_times")
        ELSE IF ~(Range(fids) \subseteq Range(results)) THEN Raise(g, "KeyError")
        ELSE Return(g, Pair(fids, "time", time))

(***************************************************************************)
(* encoding_fidelity.                                                      *)
(***************************************************************************)
\* encoding_fidelity(n_shots, ...), the libraries returning: one fidelity,
\* read from 'dm_0' or 'exp_0', and the circuit
encoding_fidelity(a) ==
    LET f == NewFrame("encoding_fidelity", a, "call")
        r == enc_full_gate_times(a.gate_times)
        results == stabilizer_snapshots(a.snapshot_type, 0)
        g == [f EXCEPT !.full_gate_times = r.full,
                       !.printed = @ \o r.warned,
                       !.time = IF a.idle_noise THEN Bound(circuit_time(results))
                                ELSE Unbound,
                       !.stages = <<"build">>
                                  \o (IF IsDm(a.snapshot_type) THEN <<"execute">>
                                      ELSE <<>>)
                                  \o (IF a.idle_noise THEN <<"idle_noise">> ELSE <<>>)
                                  \o <<"execute", "extract">>,
                       !.results = results]
    IN  IF r.raised THEN Raise(f, "gate_times")
        ELSE IF IsDm(a.snapshot_type)
        THEN Return(g, Pair(<<Key("dm", 0)>>, "circ", <<>>))
        ELSE IF IsExp(a.snapshot_type)
        THEN Return(g, Pair(<<Key("exp", 0)>>, "circ", <<>>))
        ELSE Raise(g, "UnboundLocalError")

(***************************************************************************)
(* scale_gate_times.                                                       *)
(***************************************************************************)
ScaledKeys == {"single_qubit_gate", "two_qubit_gate", "measure", "feedback"}

\* extract the gate times from class
sgt_gate_times(full_gate_times) ==
    LET extracted_gate_times == get_gate_times(full_gate_times, EmptyDict)
    IN  [single_qubit_gate |-> extracted_gate_times["x"],
         two_qubit_gate |-> extracted_gate_times["cz"],
         measure |-> extracted_gate_times["measure"],
         feedback |-> extracted_gate_times["feedback"]]

\* the scaled times with the scale added instead of multiplied
sgt_scaled_times_added(gate_times, scalings, return_class) ==
    IF return_class
    THEN [kind |-> "list",
          list |-> [j \in 1..Len(scalings) |->
                       GateTimes(gate_times.single_qubit_gate + scalings[j],
                                 gate_times.two_qubit_gate + scalings[j],
                                 [u1 |-> 0, z |-> 0,
                                  measure |-> gate_times.measure + scalings[j],
                                  feedback |-> gate_times.feedback + scalings[j]])],
          dict |-> EmptyDict]
    ELSE [kind |-> "dict",
          list |-> <<>>,
          dict |-> [key \in DOMAIN gate_times |->
                       [j \in 1..Len(scalings) |-> gate_times[key] + scalings[j]]]]

\* scaled_times: a list of GateTimes when return_class, else a dict of lists
sgt_scaled_times(gate_times, scalings, return_class) ==
    IF return_class
    THEN [kind |-> "list",
          list |-> [j \in 1..Len(scalings) |->
                       GateTimes(gate_times.single_qubit_gate * scalings[j],
                                 gate_times.two_qubit_gate * scalings[j],
                                 [u1 |-> 0, z |-> 0,
                                  measure |-> gate_times.measure * scalings[j],
                                  feedback |-> gate_times.feedback * scalings[j]])],
          dict |-> EmptyDict]
    ELSE [kind |-> "dict",
          list |-> <<>>,
          dict |-> [key \in DOMAIN gate_times |->
                       [j \in 1..Len(scalings) |-> gate_times[key] * scalings[j]]]]

\* scale_gate_times(gate_times, scalings, return_class)
scale_gate_times(a) ==
    LET f == NewFrame("scale_gate_times", a, "call")
        r == sgt_full_gate_times(a.gate_times)
        g == [f EXCEPT !.full_gate_times = r.full, !.printed = @ \o r.warned]
    IN  IF r.raised THEN Raise(f, "gate_times")
        ELSE Return(g, sgt_scaled_times(sgt_gate_times(r.full), a.scalings,
                                        a.return_class))

(***************************************************************************)
(* sweep_parameter_space.                                                  *)
(***************************************************************************)
\* the six noise parameters, in the order of the signature
ParamNames == <<"T1", "T2", "single_qubit_gate_time", "two_qubit_gate_time",
                "measure_time", "feedback_time">>

\* what scipy.optimize.curve_fit returns when it returns: the lifetime T and
\* cov[0][0] fitted to the fidelities of one combination
curve_fit(params) ==
    [T |-> 10 * params[1] + params[2],
     cov |-> (params[3] + params[4] + params[5] + params[6]) \div 10]

\* check for theta and phi in kwargs
sweep_theta_phi(kwargs) ==
    IF kwargs.theta = "absent" \/ kwargs.phi = "absent"
    THEN [theta |-> "0", phi |-> "0"]
    ELSE [theta |-> kwargs.theta, phi |-> kwargs.phi]

\* normalize data if needed: the single-qubit fidelities of the |+> state are
\* rescaled before the fit
sweep_fit_name(a) ==
    IF a.single_qubit /\ sweep_theta_phi(a.kwargs) = [theta |-> "pi/2", phi |-> "pi/2"]
    THEN "curve_fit: normalized"
    ELSE "curve_fit"

\* the call each mode of the sweep makes for one combination
sweep_inner_call(a, params) ==
    LET gate_times ==
            [kind |-> "GateTimes",
             times |-> GateTimes(params[3], params[4],
                                 [u1 |-> 0, z |-> 0, measure |-> params[5],
                                  feedback |-> params[6]])]
    IN  IF a.single_qubit
        THEN fid_single_qubit([n_cycles |-> a.n_cycles, gate_times |-> gate_times,
                               snapshot_type |-> a.kwargs.snapshot_type])
        ELSE IF a.perfect_stab
        THEN perfect_stab_circuit([n_cycles |-> a.n_cycles,
                                   gate_times |-> gate_times,
                                   snapshot_type |-> "exp"])
        ELSE fidelity_from_scratch(
                 [n_cycles |-> a.n_cycles, gate_times |-> gate_times,
                  data_process_type |-> a.kwargs.data_process_type,
                  idle_noise |-> a.kwargs.idle_noise, transpile |-> TRUE,
                  snapshot_type |-> a.kwargs.snapshot_type,
                  simulator_type |-> "density_matrix"])

\* whether the values a call returned reach curve_fit with matching lengths:
\* fid, time = ...; time_list = list(time.values())[1:-1]; fid[1:]
sweep_fit_input_ok(inner) ==
    /\ inner.pc = "done"
    /\ inner.ret.kind = "pair"
    /\ Len(Slice1ToLast(inner.ret.time)) = Len(SliceFrom1(inner.ret.fid))

\* the unpacking taking any returned value for a pair
sweep_error_unpack_ok(inner) ==
    IF inner.pc = "raised" THEN inner.error
    ELSE IF Len(Slice1ToLast(inner.ret.time)) # Len(SliceFrom1(inner.ret.fid))
    THEN "ValueError: curve_fit"
    ELSE "none"

\* what stops an iteration whose call returned or raised on its own
sweep_error(inner) ==
    IF inner.pc = "raised" THEN inner.error
    ELSE IF inner.ret.kind # "pair" THEN "ValueError: unpack"
    ELSE IF Len(Slice1ToLast(inner.ret.time)) # Len(SliceFrom1(inner.ret.fid))
    THEN "ValueError: curve_fit"
    ELSE "none"

\* the two np.save calls outside the test of save
sweep_save_unconditional(save, err, var) ==
    {[name |-> save, suffix |-> "", array |-> err],
     [name |-> save, suffix |-> "_var", array |-> var]}

\* np.save(save, error_array); np.save(save+'_var', var_array)
sweep_save(save, err, var) ==
    IF save # None
    THEN {[name |-> save, suffix |-> "", array |-> err],
          [name |-> save, suffix |-> "_var", array |-> var]}
    ELSE {}

SweepParams == product_value(product_pos, noise_parameters)

\* lines 416-435: theta and phi, the parameter lists, the arrays, index = 0
SweepSetup ==
    /\ pc = "start"
    /\ LET lists == [i \in 1..6 |-> as_list(args.params[i])]
           lengths == [i \in 1..6 |-> Len(lists[i])]
       IN  /\ noise_parameters' = lists
           /\ sweep_lengths' = lengths
           /\ error_array' = np_zeros(lengths)
           /\ var_array' = np_zeros(lengths)
           /\ product_pos' = product_first(lists)
    /\ index' = 0
    /\ pc' = "loop"
    /\ UNCHANGED <<args, visited, calls, files, frame, error, ret>>

\* one iteration of the loop that skips its combination
SweepSkip ==
    /\ pc = "loop"
    /\ product_pos # <<>>
    /\ skip_case(SweepParams)
    /\ index' = skip_index(index)
    /\ visited' = Append(visited, product_pos)
    /\ product_pos' = product_next(product_pos, noise_parameters)
    /\ UNCHANGED <<args, pc, noise_parameters, sweep_lengths, error_array,
                   var_array, calls, files, frame, error, ret>>

\* one iteration of the loop that simulates, fits and records the result
SweepProcess ==
    /\ pc = "loop"
    /\ product_pos # <<>>
    /\ ~skip_case(SweepParams)
    /\ LET inner == sweep_inner_call(args, SweepParams)
           array_indexes == _get_array_indexes(index, sweep_lengths)
       IN  /\ sweep_fit_input_ok(inner)
           /\ array_indexes \in DOMAIN error_array.data
           /\ error_array' = [error_array EXCEPT
                                 !.data[array_indexes] = curve_fit(SweepParams).T]
           /\ var_array' = [var_array EXCEPT
                               !.data[array_indexes] = curve_fit(SweepParams).cov]
           /\ frame' = inner
           /\ calls' = calls \o <<[op |-> "simulate", at |-> product_pos],
                                  [op |-> sweep_fit_name(args), at |-> product_pos]>>
    /\ index' = index + 1
    /\ visited' = Append(visited, product_pos)
    /\ product_pos' = product_next(product_pos, noise_parameters)
    /\ UNCHANGED <<args, pc, noise_parameters, sweep_lengths, files, error, ret>>

\* the errors that can end an iteration: a library raising inside the call,
\* the call raising on its own, the unpacking, curve_fit, the array index
SweepErrors(inner, array_indexes) ==
    {"external"}
    \cup (IF sweep_error(inner) # "none" THEN {sweep_error(inner)}
          ELSE {"curve_fit"}
               \cup (IF array_indexes \in DOMAIN error_array.data THEN {}
                     ELSE {"IndexError"}))

\* the iteration wrapped in try/except: the error is dropped and the loop
\* goes on with the next combination
SweepRaiseSwallowed ==
    /\ pc = "loop"
    /\ product_pos # <<>>
    /\ ~skip_case(SweepParams)
    /\ error' = "external"
    /\ calls' = Append(calls, [op |-> "simulate", at |-> product_pos])
    /\ index' = index + 1
    /\ visited' = Append(visited, product_pos)
    /\ product_pos' = product_next(product_pos, noise_parameters)
    /\ UNCHANGED <<args, pc, noise_parameters, sweep_lengths, error_array,
                   var_array, files, frame, ret>>

\* one iteration of the loop that raises: the error leaves the function
SweepRaise ==
    /\ pc = "loop"
    /\ product_pos # <<>>
    /\ ~skip_case(SweepParams)
    /\ LET inner == sweep_inner_call(args, SweepParams)
           array_indexes == _get_array_indexes(index, sweep_lengths)
       IN  \E e \in SweepErrors(inner, array_indexes) :
              /\ frame' = IF e = "external" THEN Raise(inner, "external") ELSE inner
              /\ calls' = calls
                          \o <<[op |-> "simulate", at |-> product_pos]>>
                          \o (IF e \in {"curve_fit", "ValueError: curve_fit",
                                        "IndexError"}
                              THEN <<[op |-> sweep_fit_name(args),
                                      at |-> product_pos]>>
                              ELSE <<>>)
              /\ error' = e
              /\ pc' = "raised"
    /\ visited' = Append(visited, product_pos)
    /\ UNCHANGED <<args, noise_parameters, sweep_lengths, error_array, var_array,
                   index, product_pos, files, ret>>

\* the loop is over: save results to file and return
SweepFinish ==
    /\ pc = "loop"
    /\ product_pos = <<>>
    /\ files' = files \cup sweep_save(args.save, error_array, var_array)
    /\ ret' = [error_array |-> error_array, var_array |-> var_array]
    /\ pc' = "returned"
    /\ UNCHANGED <<args, noise_parameters, sweep_lengths, error_array, var_array,
                   index, product_pos, visited, calls, frame, error>>

(***************************************************************************)
(* The calls of sweep_parameter_space that are explored.                   *)
(***************************************************************************)
\* the list [first, first+step, ...] of n values
ListOf(n, first, step) == [i \in 1..n |-> first + step * (i - 1)]

T1Options == {Scalar(1)} \cup {PyList(ListOf(n, 1, 1)) : n \in 0..MaxLen}
T2Options == {Scalar(2), Scalar(3)} \cup {PyList(ListOf(n, 2, 1)) : n \in 0..MaxLen}
GateOptions(t) == {Scalar(t), PyList(ListOf(MaxLen, t, t))}

\* the length of the list an argument stands for
ArgLen(param) == IF param.kind = "list" THEN Len(param.items) ELSE 1

DefaultKwargs ==
    [data_process_type |-> "recovery", idle_noise |-> TRUE, snapshot_type |-> "dm",
     theta |-> "absent", phi |-> "absent"]

PlusStateKwargs ==
    [DefaultKwargs EXCEPT !.snapshot_type = "exp", !.theta = "pi/2", !.phi = "pi/2"]

SweepParamsOptions ==
    {p \in T1Options \X T2Options \X GateOptions(20) \X GateOptions(100)
           \X GateOptions(300) \X GateOptions(350) :
        Prod([i \in 1..6 |-> ArgLen(p[i])]) <= MaxCells}

\* sweeps of fidelity_from_scratch and of fid_single_qubit
SweepArgs ==
    [params : SweepParamsOptions, n_cycles : {MaxCycles},
     single_qubit : {FALSE}, perfect_stab : {FALSE}, save : {None, "sweep"},
     kwargs : {DefaultKwargs}]
    \cup
    [params : SweepParamsOptions, n_cycles : {MaxCycles},
     single_qubit : {TRUE}, perfect_stab : {FALSE}, save : {None},
     kwargs : {PlusStateKwargs}]

InitSweep ==
    /\ args \in SweepArgs
    /\ pc = "start"
    /\ noise_parameters = <<>>
    /\ sweep_lengths = <<>>
    /\ error_array = NoArray
    /\ var_array = NoArray
    /\ index = 0
    /\ product_pos = <<>>
    /\ visited = <<>>
    /\ calls = <<>>
    /\ files = {}
    /\ frame = NoFrame
    /\ error = "none"
    /\ ret = [error_array |-> NoArray, var_array |-> NoArray]

NextSweep == SweepSetup \/ SweepSkip \/ SweepProcess \/ SweepRaise \/ SweepFinish

SpecSweep == InitSweep /\ [][NextSweep]_vars

(***************************************************************************)
(* The calls of the pipeline functions that are explored.                  *)
(***************************************************************************)
\* gate_times arguments: dicts, a GateTimes object, and a value that is neither
GateTimesArgs ==
    {[kind |-> "dict", times |-> EmptyDict],
     [kind |-> "dict", times |-> [cz |-> 200, measure |-> 500]],
     [kind |-> "GateTimes",
      times |-> GateTimes(30, 150, [u1 |-> 0, z |-> 0, measure |-> 400,
                                    feedback |-> 450])],
     [kind |-> "other", times |-> EmptyDict]}

SnapshotTypes == {"dm", "density_matrix", "exp", "expectation_value", "other"}

DataProcessTypes ==
    {"recovery", "post_select", "empty_circuit", "none", "post_process", "other"}

SimulatorTypes == SimulatorMethods \cup {"other"}

\* the lists of scaling factors
RECURSIVE SeqsUpTo(_, _)
SeqsUpTo(S, n) ==
    IF n = 0 THEN {<<>>}
    ELSE SeqsUpTo(S, n - 1)
         \cup {Append(q, x) : q \in {r \in SeqsUpTo(S, n - 1) : Len(r) = n - 1},
                              x \in S}

FfsArgs ==
    [n_cycles : 0..MaxCycles, gate_times : GateTimesArgs,
     data_process_type : DataProcessTypes, idle_noise : BOOLEAN,
     transpile : BOOLEAN, snapshot_type : SnapshotTypes,
     simulator_type : SimulatorTypes]

FsqArgs ==
    [n_cycles : 0..MaxCycles, gate_times : GateTimesArgs,
     snapshot_type : SnapshotTypes]

PscArgs ==
    [n_cycles : 0..MaxCycles, gate_times : GateTimesArgs,
     snapshot_type : SnapshotTypes]

EncArgs ==
    [gate_times : GateTimesArgs, snapshot_type : SnapshotTypes,
     idle_noise : BOOLEAN]

SgtArgs ==
    [gate_times : GateTimesArgs, scalings : SeqsUpTo({1, 2, 3}, MaxScalings),
     return_class : BOOLEAN]

CallFrames ==
    {NewFrame("fidelity_from_scratch", a, "prepare") : a \in FfsArgs}
    \cup {NewFrame("fid_single_qubit", a, "call") : a \in FsqArgs}
    \cup {NewFrame("perfect_stab_circuit", a, "call") : a \in PscArgs}
    \cup {NewFrame("encoding_fidelity", a, "call") : a \in EncArgs}
    \cup {NewFrame("scale_gate_times", a, "call") : a \in SgtArgs}

InitCalls ==
    /\ frame \in CallFrames
    /\ args = frame.a
    /\ pc = "call"
    /\ noise_parameters = <<>>
    /\ sweep_lengths = <<>>
    /\ error_array = NoArray
    /\ var_array = NoArray
    /\ index = 0
    /\ product_pos = <<>>
    /\ visited = <<>>
    /\ calls = <<>>
    /\ files = {}
    /\ error = "none"
    /\ ret = [error_array |-> NoArray, var_array |-> NoArray]

\* fidelity_from_scratch: gate times, settings and noise model
FfsPrepare ==
    /\ frame.fn = "fidelity_from_scratch"
    /\ frame.pc = "prepare"
    /\ frame' = ffs_prepare(frame)
    /\ UNCHANGED <<args, pc, sweep_vars>>

\* fidelity_from_scratch: the stabilizer circuit is built
FfsBuild ==
    /\ frame.fn = "fidelity_from_scratch"
    /\ frame.pc = "build"
    /\ frame' = ffs_build(frame)
    /\ UNCHANGED <<args, pc, sweep_vars>>

\* fidelity_from_scratch: the circuit is transpiled when transpile is set
FfsTranspile ==
    /\ frame.fn = "fidelity_from_scratch"
    /\ frame.pc = "transpile"
    /\ frame' = ffs_transpile(frame)
    /\ UNCHANGED <<args, pc, sweep_vars>>

\* fidelity_from_scratch: noise is attached to the circuit
FfsNoise ==
    /\ frame.fn = "fidelity_from_scratch"
    /\ frame.pc = "noise"
    /\ frame' = ffs_noise(frame)
    /\ UNCHANGED <<args, pc, sweep_vars>>

\* fidelity_from_scratch: the simulator method is set
FfsOption ==
    /\ frame.fn = "fidelity_from_scratch"
    /\ frame.pc = "option"
    /\ frame' = ffs_option(frame)
    /\ UNCHANGED <<args, pc, sweep_vars>>

\* fidelity_from_scratch: the circuit is executed
FfsExecute ==
    /\ frame.fn = "fidelity_from_scratch"
    /\ frame.pc = "execute"
    /\ frame' = ffs_execute(frame)
    /\ UNCHANGED <<args, pc, sweep_vars>>

\* fidelity_from_scratch: the fidelities are computed and returned
FfsExtract ==
    /\ frame.fn = "fidelity_from_scratch"
    /\ frame.pc = "extract"
    /\ frame' = ffs_extract(frame)
    /\ UNCHANGED <<args, pc, sweep_vars>>

\* a library called by the current stage of fidelity_from_scratch raises
FfsLibraryRaises ==
    /\ frame.fn = "fidelity_from_scratch"
    /\ ffs_calls_library(frame)
    /\ frame' = Raise(frame, "external")
    /\ UNCHANGED <<args, pc, sweep_vars>>

\* a call of fid_single_qubit
FsqCall ==
    /\ frame.fn = "fid_single_qubit"
    /\ frame.pc = "call"
    /\ frame' \in {fid_single_qubit(frame.a), Raise(frame, "external")}
    /\ UNCHANGED <<args, pc, sweep_vars>>

\* a call of perfect_stab_circuit
PscCall ==
    /\ frame.fn = "perfect_stab_circuit"
    /\ frame.pc = "call"
    /\ frame' \in {perfect_stab_circuit(frame.a), Raise(frame, "external")}
    /\ UNCHANGED <<args, pc, sweep_vars>>

\* a call of encoding_fidelity
EncCall ==
    /\ frame.fn = "encoding_fidelity"
    /\ frame.pc = "call"
    /\ frame' \in {encoding_fidelity(frame.a), Raise(frame, "external")}
    /\ UNCHANGED <<args, pc, sweep_vars>>

\* a call of scale_gate_times
SgtCall ==
    /\ frame.fn = "scale_gate_times"
    /\ frame.pc = "call"
    /\ frame' = scale_gate_times(frame.a)
    /\ UNCHANGED <<args, pc, sweep_vars>>

NextCalls ==
    \/ FfsPrepare \/ FfsBuild \/ FfsTranspile \/ FfsNoise \/ FfsOption
    \/ FfsExecute \/ FfsExtract \/ FfsLibraryRaises
    \/ FsqCall \/ PscCall \/ EncCall \/ SgtCall

SpecCalls == InitCalls /\ [][NextCalls]_vars

(***************************************************************************)
(* The sweeps in each of the three modes, over the keyword arguments the   *)
(* sweep hands on to the function it calls.                                *)
(***************************************************************************)
ModeKwargs ==
    [data_process_type : DataProcessTypes, idle_noise : BOOLEAN,
     snapshot_type : {"dm", "exp", "other"}, theta : {"absent"}, phi : {"absent"}]

ModeParamsOptions ==
    {Scalar(1), PyList(ListOf(MaxLen, 1, 1))}
    \X {Scalar(2), PyList(ListOf(MaxLen, 2, 1))}
    \X {Scalar(20)} \X {Scalar(100)} \X {Scalar(300)} \X {Scalar(350)}

SweepModeArgs ==
    [params : ModeParamsOptions, n_cycles : 0..MaxCycles,
     single_qubit : BOOLEAN, perfect_stab : BOOLEAN, save : {None, "modes"},
     kwargs : ModeKwargs]

InitSweepModes ==
    /\ args \in SweepModeArgs
    /\ pc = "start"
    /\ noise_parameters = <<>>
    /\ sweep_lengths = <<>>
    /\ error_array = NoArray
    /\ var_array = NoArray
    /\ index = 0
    /\ product_pos = <<>>
    /\ visited = <<>>
    /\ calls = <<>>
    /\ files = {}
    /\ frame = NoFrame
    /\ error = "none"
    /\ ret = [error_array |-> NoArray, var_array |-> NoArray]

SpecSweepModes == InitSweepModes /\ [][NextSweep]_vars

(***************************************************************************)
(* Properties of sweep_parameter_space.                                    *)
(***************************************************************************)
\* the lengths the six arguments stand for
ExpectedLengths == [i \in 1..6 |-> ArgLen(args.params[i])]

\* the product of lengths[j..]
RECURSIVE ProdFrom(_, _)
ProdFrom(lengths, j) ==
    IF j > Len(lengths) THEN 1 ELSE lengths[j] * ProdFrom(lengths, j + 1)

\* the row-major multi-index of flat index k in an array of the given lengths
RowMajor(k, lengths) ==
    [i \in 1..Len(lengths) |-> (k \div ProdFrom(lengths, i + 1)) % lengths[i]]

\* the 0-based cell of a combination of the product
CellOf(pos) == [i \in 1..Len(pos) |-> pos[i] - 1]

\* the values of the combination that belongs to a cell
ValuesAt(cell) == [i \in 1..6 |-> noise_parameters[i][cell[i] + 1]]

\* the combinations the loop has finished (a raising iteration is not)
Finished == IF pc = "raised" THEN Len(visited) - 1 ELSE Len(visited)

\* the library calls made for the combination at pos
CallsAt(pos) == {j \in 1..Len(calls) : calls[j].at = pos}

InSweep == pc \in {"loop", "returned", "raised"}

NoReturn == [error_array |-> NoArray, var_array |-> NoArray]

\* C1: the loop visits the Cartesian product of the six parameter lists in
\* row-major order (last parameter fastest), every combination exactly once
\* by the time it returns; an argument that is not a list counts as a
\* one-element list; both returned arrays have the six list lengths as shape.
C1_CartesianProduct ==
    InSweep =>
        /\ \A i \in 1..6 :
              noise_parameters[i] = IF args.params[i].kind = "list"
                                    THEN args.params[i].items
                                    ELSE <<args.params[i].val>>
        /\ \A k \in 1..Len(visited) :
              CellOf(visited[k]) = RowMajor(k - 1, ExpectedLengths)
        /\ pc = "returned" =>
              /\ Len(visited) = Prod(ExpectedLengths)
              /\ {CellOf(visited[k]) : k \in 1..Len(visited)} = Cells(ExpectedLengths)
              /\ ret.error_array.shape = ExpectedLengths
              /\ ret.var_array.shape = ExpectedLengths
              /\ DOMAIN ret.error_array.data = Cells(ExpectedLengths)
              /\ DOMAIN ret.var_array.data = Cells(ExpectedLengths)
              /\ (\A i \in 1..6 : args.params[i].kind = "scalar")
                    => ret.error_array.shape = <<1, 1, 1, 1, 1, 1>>

\* a sweep over lists and scalars has returned after at least six combinations
C1_Witness ==
    /\ pc = "returned"
    /\ Len(visited) >= 6
    /\ \E i \in 1..6 : args.params[i].kind = "scalar"
    /\ \E i, j \in 1..6 : /\ i < j
                          /\ Len(noise_parameters[i]) > 1
                          /\ Len(noise_parameters[j]) > 1

\* C2: a combination is skipped exactly when T2 > 2*T1: no simulation and no
\* fit is run for it and its cell stays 0 in both arrays, every other finished
\* combination is simulated and fitted; the index counter advances by one per
\* combination, skipped or not.
C2_SkipCase ==
    InSweep =>
        /\ pc = "loop" => index = Len(visited)
        /\ \A k \in 1..Finished :
              LET pos == visited[k]
                  params == product_value(pos, noise_parameters)
              IN  IF params[2] > 2 * params[1]
                  THEN /\ CallsAt(pos) = {}
                       /\ error_array.data[CellOf(pos)] = 0
                       /\ var_array.data[CellOf(pos)] = 0
                  ELSE /\ \E j \in CallsAt(pos) : calls[j].op = "simulate"
                       /\ \E j \in CallsAt(pos) : calls[j].op = sweep_fit_name(args)
                       /\ error_array.data[CellOf(pos)] = curve_fit(params).T

\* a returned sweep that skipped a combination, then processed a later one,
\* and processed a combination with T2 = 2*T1
C2_Witness ==
    /\ pc = "returned"
    /\ \E k, m \in 1..Len(visited) :
          /\ k < m
          /\ skip_case(product_value(visited[k], noise_parameters))
          /\ ~skip_case(product_value(visited[m], noise_parameters))
          /\ error_array.data[CellOf(visited[m])] # 0
    /\ \E k \in 1..Len(visited) :
          LET params == product_value(visited[k], noise_parameters)
          IN  params[2] = 2 * params[1] /\ CallsAt(visited[k]) # {}

\* C3: for positive sweep lengths _get_array_indexes maps every flat index
\* below the product of the lengths to its row-major multi-index, inside the
\* array and different for different flat indexes, and the k-th combination
\* of the product has the positions of its values as multi-index; so every
\* cell holds the fit of its own combination if that was processed, else 0.
C3_ArrayIndexes ==
    (InSweep /\ \A i \in 1..6 : sweep_lengths[i] > 0) =>
        /\ \A k \in 0..(Prod(sweep_lengths) - 1) :
              LET t == _get_array_indexes(k, sweep_lengths)
              IN  /\ t = RowMajor(k, sweep_lengths)
                  /\ \A i \in 1..6 : t[i] \in 0..(sweep_lengths[i] - 1)
                  /\ \A m \in 0..(k - 1) : _get_array_indexes(m, sweep_lengths) # t
        /\ \A k \in 1..Len(visited) :
              /\ _get_array_indexes(k - 1, sweep_lengths) = CellOf(visited[k])
              /\ ValuesAt(_get_array_indexes(k - 1, sweep_lengths))
                    = product_value(visited[k], noise_parameters)
        /\ \A cell \in DOMAIN error_array.data :
              LET done == \E k \in 1..Finished :
                              /\ CellOf(visited[k]) = cell
                              /\ ~skip_case(ValuesAt(cell))
              IN  /\ error_array.data[cell]
                        = IF done THEN curve_fit(ValuesAt(cell)).T ELSE 0
                  /\ var_array.data[cell]
                        = IF done THEN curve_fit(ValuesAt(cell)).cov ELSE 0

\* a sweep over three lists of different lengths has filled its last cell
C3_Witness ==
    /\ pc = "returned"
    /\ \A i \in 1..6 : sweep_lengths[i] > 0
    /\ Cardinality({i \in 1..6 : sweep_lengths[i] > 1}) >= 2
    /\ \E i, j \in 1..6 : sweep_lengths[i] > 1 /\ sweep_lengths[j] > sweep_lengths[i]
    /\ error_array.data[[i \in 1..6 |-> sweep_lengths[i] - 1]] # 0

\* C4: an error raised in an iteration leaves sweep_parameter_space: the
\* loop stops, nothing is returned and nothing is saved.
C4_ErrorPropagates ==
    error # "none" =>
        /\ pc = "raised"
        /\ ret = NoReturn
        /\ files = {}
        /\ Len(visited) = index + 1
        /\ ~ENABLED NextSweep

\* a sweep with a save path raised after it had processed a combination
C4_Witness ==
    /\ pc = "raised"
    /\ args.save # None
    /\ index >= 2
    /\ product_next(product_pos, noise_parameters) # <<>>
    /\ \E cell \in DOMAIN error_array.data : error_array.data[cell] # 0

(***************************************************************************)
(* Properties of the pipeline functions.                                   *)
(***************************************************************************)
IsFfs == frame.fn = "fidelity_from_scratch"

ValidSnapshot(snapshot_type) ==
    snapshot_type \in {"dm", "density_matrix", "exp", "expectation_value"}

\* the gate times a gate_times argument stands for
ExpectedGateTimes(gate_times) ==
    CASE gate_times.kind = "dict" ->
            [g \in GateNames |-> IF g \in DOMAIN gate_times.times
                                 THEN gate_times.times[g]
                                 ELSE WACQT_gate_times[g]]
      [] gate_times.kind = "GateTimes" -> gate_times.times
      [] OTHER -> WACQT_gate_times

\* the function has got past its gate-times lines
GateTimesResolved ==
    /\ frame.fn \in {"fidelity_from_scratch", "fid_single_qubit",
                     "encoding_fidelity", "perfect_stab_circuit",
                     "scale_gate_times"}
    /\ frame.pc \notin {"prepare", "call"}
    /\ (frame.pc = "raised" /\ frame.error = "external") => frame.stages # <<>>

\* C5: each of the five functions resolves gate_times the same way: a dict is
\* merged over the standard gate times, a GateTimes object is used as it is,
\* anything else gives a warning and the standard gate times, and no error.
C5_GateTimesResolution ==
    /\ frame.error # "gate_times"
    /\ GateTimesResolved =>
          /\ frame.full_gate_times = ExpectedGateTimes(frame.a.gate_times)
          /\ (InvalidGateTimes \in Range(frame.printed))
                <=> frame.a.gate_times.kind \notin {"dict", "GateTimes"}

\* fidelity_from_scratch has returned after the warning about its gate times
C5_Witness ==
    /\ IsFfs
    /\ frame.pc = "done"
    /\ frame.a.gate_times.kind = "other"
    /\ frame.printed = <<InvalidGateTimes>>
    /\ frame.full_gate_times = WACQT_gate_times

FfsFinished ==
    /\ IsFfs
    /\ frame.pc \in {"done", "raised"}
    /\ frame.error # "external"

\* C7: for the four data_process_types with a result and a valid
\* snapshot_type, fidelity_from_scratch returns a pair: n_cycles+1 fidelities,
\* then the post-selection counts for 'post_select' and the snapshot times
\* for 'recovery', 'none' and 'empty_circuit'.
C7_ReturnsPair ==
    (/\ FfsFinished
     /\ frame.a.data_process_type
           \in {"recovery", "none", "post_select", "empty_circuit"}
     /\ ValidSnapshot(frame.a.snapshot_type)) =>
        /\ frame.pc = "done"
        /\ frame.ret.kind = "pair"
        /\ Len(frame.ret.fid) = frame.a.n_cycles + 1
        /\ frame.ret.second = IF frame.a.data_process_type = "post_select"
                              THEN "select_counts" ELSE "time"
        /\ frame.ret.second = "time" => frame.ret.time = frame.time.keys

\* C8: scale_gate_times returns, for return_class False, a dict of the four
\* keys, each a list with the base time times scalings[j] at j; for
\* return_class True a list of GateTimes with the four times scaled by
\* scalings[j] and 'u1' and 'z' at 0; as many entries as scalings.
C8_ScaledTimes ==
    frame.fn = "scale_gate_times" =>
        /\ frame.pc \in {"call", "done"}
        /\ frame.pc = "done" =>
              LET base == ExpectedGateTimes(frame.a.gate_times)
                  scalings == frame.a.scalings
                  from == [single_qubit_gate |-> "x", two_qubit_gate |-> "cz",
                           measure |-> "measure", feedback |-> "feedback"]
                  r == frame.ret
              IN  IF frame.a.return_class
                  THEN /\ r.kind = "list"
                       /\ Len(r.list) = Len(scalings)
                       /\ \A j \in 1..Len(scalings) :
                             /\ \A key \in ScaledKeys :
                                   /\ r.list[j][from[key]] = base[from[key]] * scalings[j]
                                   /\ scalings[j] = 1 =>
                                         r.list[j][from[key]] = base[from[key]]
                             /\ r.list[j]["u1"] = 0
                             /\ r.list[j]["z"] = 0
                  ELSE /\ r.kind = "dict"
                       /\ DOMAIN r.dict = ScaledKeys
                       /\ \A key \in ScaledKeys :
                             /\ Len(r.dict[key]) = Len(scalings)
                             /\ \A j \in 1..Len(scalings) :
                                   /\ r.dict[key][j] = base[from[key]] * scalings[j]
                                   /\ scalings[j] = 1 =>
                                         r.dict[key][j] = base[from[key]]

\* a list of GateTimes scaled by 1 and by 3 from a dict of gate times
C8_Witness ==
    /\ frame.fn = "scale_gate_times"
    /\ frame.pc = "done"
    /\ frame.a.return_class
    /\ frame.a.scalings = <<1, 3>>
    /\ frame.a.gate_times.kind = "dict"
    /\ frame.a.gate_times.times # EmptyDict
    /\ frame.ret.list[2]["cz"] = 600

\* what fid_single_qubit returns according to C9
FsqReturn ==
    /\ frame.ret.kind = "pair"
    /\ Len(frame.ret.fid) = Len(frame.ret.time) - 1
    /\ frame.ret.fid[1] = Key("one", 0)
    /\ \A k \in 1..(Len(frame.ret.fid) - 1) :
          /\ frame.ret.fid[k + 1] = Key("snap", k)
          /\ Key("snap", k) \in Range(frame.results)
    /\ frame.ret.second = "time"
    /\ frame.ret.time = frame.time.keys
    /\ frame.ret.time
          = circuit_time(stabilizer_snapshots(frame.a.snapshot_type, frame.a.n_cycles))

\* C9 as stated: whatever the snapshot_type, fid_single_qubit returns
\* len(time)-1 fidelities, 1.0 first and the k-th from 'snap_k', and time.
C9_AsStated ==
    (frame.fn = "fid_single_qubit" /\ frame.pc = "done") => FsqReturn

\* C9: for a snapshot_type among 'dm', 'density_matrix', 'exp' and
\* 'expectation_value', fid_single_qubit returns len(time)-1 fidelities, 1.0
\* first and the k-th read from 'snap_k', and the time dictionary unchanged.
C9_SingleQubitFidelities ==
    (/\ frame.fn = "fid_single_qubit"
     /\ frame.pc # "call"
     /\ frame.error # "external"
     /\ ValidSnapshot(frame.a.snapshot_type)) =>
        frame.pc = "done" /\ FsqReturn

\* fid_single_qubit has returned three fidelities for two cycles
C9_Witness ==
    /\ frame.fn = "fid_single_qubit"
    /\ frame.pc = "done"
    /\ frame.a.n_cycles = 2
    /\ frame.a.snapshot_type = "density_matrix"
    /\ Len(frame.ret.fid) = 3
    /\ frame.ret.fid[3] = Key("snap", 2)

\* the place of a stage in the pipeline
StageRank(stage) ==
    CASE stage = "build" -> 1
      [] stage = "transpile" -> 2
      [] stage \in {"empty_noise", "idle_noise"} -> 3
      [] stage = "execute" -> 4
      [] stage = "extract" -> 5

\* C10: a call of fidelity_from_scratch goes through build, transpile (when
\* set), noise (the empty noisy circuit for 'empty_circuit', else idle noise
\* when set), execute, extract in that order: the circuit is never executed
\* twice, and exactly once before any fidelity is extracted or returned.
C10_LinearPipeline ==
    IsFfs =>
        LET st == frame.stages
            executed == {i \in 1..Len(st) : st[i] = "execute"}
        IN  /\ \A i, j \in 1..Len(st) : i < j => StageRank(st[i]) < StageRank(st[j])
            /\ Cardinality(executed) <= 1
            /\ ("extract" \in Range(st) \/ frame.pc \in {"extract", "done"})
                  => Cardinality(executed) = 1
            /\ frame.pc \in {"extract", "done"} =>
                  /\ st[1] = "build"
                  /\ ("transpile" \in Range(st)) <=> frame.a.transpile
                  /\ ("empty_noise" \in Range(st))
                        <=> frame.a.data_process_type = "empty_circuit"
                  /\ ("idle_noise" \in Range(st))
                        <=> (frame.a.data_process_type # "empty_circuit"
                             /\ frame.a.idle_noise)

\* an 'empty_circuit' call has gone through all five stages and returned
C10_Witness ==
    /\ IsFfs
    /\ frame.pc = "done"
    /\ frame.stages = <<"build", "transpile", "empty_noise", "execute", "extract">>
    /\ frame.ret.kind = "pair"

(***************************************************************************)
(* Properties of the sweep in its three modes.                             *)
(***************************************************************************)
\* the call of the last iteration returned fidelities and snapshot times
FitReached ==
    /\ InSweep
    /\ frame.fn # "none"
    /\ frame.pc = "done"
    /\ frame.ret.kind = "pair"
    /\ frame.ret.second = "time"

\* the two lists handed to curve_fit have one length
FitLengthsMatch ==
    Len(Slice1ToLast(frame.ret.time)) = Len(SliceFrom1(frame.ret.fid))

\* C11: in each of the three modes, for every combination whose call
\* returned, list(time.values())[1:-1] is as long as fid[1:].
C11_FitLengths == FitReached => FitLengthsMatch

\* the same outside the perfect_stab mode
FitLengthsOtherModes ==
    (FitReached /\ frame.fn # "perfect_stab_circuit") => FitLengthsMatch

\* in the perfect_stab mode the times are one fewer than the fidelities
FitLengthsPerfectStab ==
    (FitReached /\ frame.fn = "perfect_stab_circuit" /\ frame.a.n_cycles >= 1) =>
        /\ Len(Slice1ToLast(frame.ret.time)) = frame.a.n_cycles - 1
        /\ Len(SliceFrom1(frame.ret.fid)) = frame.a.n_cycles
        /\ pc = "raised"

\* the sweep calls fidelity_from_scratch with a data_process_type that has
\* no result
NoResultSweep ==
    /\ ~args.single_qubit
    /\ ~args.perfect_stab
    /\ args.kwargs.data_process_type
          \notin {"recovery", "none", "post_select", "empty_circuit"}

C12_TimeDefined ==
    (IsFfs /\ frame.a.data_process_type \in {"recovery", "none"}) =>
        /\ frame.pc \in {"extract", "done"} => frame.time.bound
        /\ frame.error # "UnboundLocalError"
        /\ FfsFinished =>
              /\ frame.pc = "done"
              /\ frame.ret = Pair(frame.ret.fid, "time", frame.time.keys)

\* the same with idle_noise True only
TimeDefinedWithIdleNoise ==
    (IsFfs /\ frame.a.data_process_type \in {"recovery", "none"}
           /\ frame.a.idle_noise) =>
        /\ frame.pc \in {"extract", "done"} => frame.time.bound
        /\ frame.error # "UnboundLocalError"
        /\ FfsFinished =>
              /\ frame.pc = "done"
              /\ frame.ret = Pair(frame.ret.fid, "time", frame.time.keys)

\* with idle_noise False the return statement raises
TimeUnboundWithoutIdleNoise ==
    (FfsFinished /\ frame.a.data_process_type \in {"recovery", "none"}
                 /\ ~frame.a.idle_noise) =>
        /\ frame.pc = "raised"
        /\ frame.error = "UnboundLocalError"
        /\ ~frame.time.bound

\* the settings are assigned: the call has got past its first lines
SettingsAssigned ==
    /\ IsFfs
    /\ frame.pc # "prepare"
    /\ frame.pc = "raised" => frame.stages # <<>>

\* C14: 'recovery' gives recovery True and conditional False, 'post_select'
\* gives recovery False and conditional True, every other data_process_type
\* gives both False; the two are never both True.
C14_Settings ==
    /\ SettingsAssigned =>
          /\ frame.recovery <=> frame.a.data_process_type = "recovery"
          /\ frame.conditional <=> frame.a.data_process_type = "post_select"
    /\ IsFfs => ~(frame.recovery /\ frame.conditional)

\* a 'post_select' call has returned with conditional set and recovery not
C14_Witness ==
    /\ IsFfs
    /\ frame.pc = "done"
    /\ frame.a.data_process_type = "post_select"
    /\ frame.conditional
    /\ ~frame.recovery
    /\ "build" \in Range(frame.stages)

(***************************************************************************)
(* The files of the sweep.                                                 *)
(***************************************************************************)
\* C15: files are written only once the whole sweep has finished and only
\* when save is not None: error_array under save and var_array under
\* save + '_var'; the arrays returned are the arrays saved.
C15_SaveAfterSweep ==
    /\ pc # "returned" => files = {}
    /\ pc = "returned" =>
          /\ Len(visited) = Prod(sweep_lengths)
          /\ ret = [error_array |-> error_array, var_array |-> var_array]
          /\ files = IF args.save = None THEN {}
                     ELSE {[name |-> args.save, suffix |-> "",
                            array |-> ret.error_array],
                           [name |-> args.save, suffix |-> "_var",
                            array |-> ret.var_array]}

\* a sweep that recorded a fit has returned and saved its two arrays
C15_Witness ==
    /\ pc = "returned"
    /\ args.save # None
    /\ Cardinality(files) = 2
    /\ \E cell \in DOMAIN error_array.data : error_array.data[cell] # 0
    /\ \E f \in files : f.suffix = "_var" /\ f.array = ret.var_array

====
